---- MODULE Spec2Model ----
(***************************************************************************)
(* State-machine model of src/src/utils.rs of scidataflow: the streaming   *)
(* MD5 fingerprint (compute_md5), the directory grouping                   *)
(* (organize_by_dir), the remote-name merge (print_status) and the two     *)
(* fixed-width table printers (print_fixed_width,                          *)
(* print_fixed_width_status).                                              *)
(*                                                                         *)
(* Encodings.  Option<T>: None is <<>>, Some(x) is <<x>>.  A String is the *)
(* sequence of its chars, each char a one-element token.  A BTreeMap or    *)
(* HashMap is a function from keys to values; a BTreeMap is iterated in    *)
(* ascending key order, a HashMap in an order the model chooses.           *)
(***************************************************************************)
EXTENDS Integers, Sequences, FiniteSets, TLC

None == <<>>
Some(x) == <<x>>

Max2(a, b) == IF a >= b THEN a ELSE b
Min2(a, b) == IF a <= b THEN a ELSE b

(***************************************************************************)
(* Strings                                                                 *)
(***************************************************************************)
\* Two non-ASCII chars of the alphabet: a CJK ideograph (East Asian Wide)
\* and a combining acute accent.
WIDE == "U+4E2D"
COMBINING == "U+0301"

\* Unicode scalar value of a char; String's Ord compares UTF-8 bytes, which
\* orders strings as the lexicographic order of their scalar values.
CodePoint(c) ==
    CASE c = " " -> 32  [] c = "/" -> 47  [] c = "0" -> 48  [] c = "1" -> 49
      [] c = ">" -> 62  [] c = "a" -> 97  [] c = "b" -> 98  [] c = "c" -> 99
      [] c = "e" -> 101 [] c = "f" -> 102 [] c = "g" -> 103 [] c = "r" -> 114
      [] c = "s" -> 115 [] c = "t" -> 116 [] c = "x" -> 120
      [] c = COMBINING -> 769 [] c = WIDE -> 20013

RECURSIVE StrLess(_, _)
StrLess(a, b) ==
    IF a = <<>> THEN b # <<>>
    ELSE IF b = <<>> THEN FALSE
    ELSE IF CodePoint(a[1]) # CodePoint(b[1]) THEN CodePoint(a[1]) < CodePoint(b[1])
    ELSE StrLess(Tail(a), Tail(b))

\* UnicodeWidthStr::width: columns occupied on a terminal.
CharWidth(c) == IF c = WIDE THEN 2 ELSE IF c = COMBINING THEN 0 ELSE 1

RECURSIVE width(_)
width(s) == IF s = <<>> THEN 0 ELSE CharWidth(s[1]) + width(Tail(s))

\* " ".repeat(n)
repeat(n) == [i \in 1..n |-> " "]

\* format!("{:width$}", col, width = w): std::fmt pads a str with fill
\* characters on the right up to w chars, counting chars().count().
format_width(col, w) ==
    IF Len(col) >= w THEN col ELSE col \o repeat(w - Len(col))

RECURSIVE join(_, _)
join(fixed_row, spacer) ==
    IF fixed_row = <<>> THEN <<>>
    ELSE IF Len(fixed_row) = 1 THEN fixed_row[1]
    ELSE fixed_row[1] \o spacer \o join(Tail(fixed_row), spacer)

(***************************************************************************)
(* std::path::Path::parent, on paths of plain names and separators         *)
(***************************************************************************)
RECURSIVE TrimSep(_)
TrimSep(p) ==
    IF Len(p) > 1 /\ p[Len(p)] = "/" THEN TrimSep(SubSeq(p, 1, Len(p) - 1)) ELSE p

LastSep(p) ==
    LET S == {i \in 1..Len(p) : p[i] = "/"}
    IN  IF S = {} THEN 0 ELSE CHOOSE i \in S : \A j \in S : j <= i

\* parent, were a bare name taken to have no parent.
parent_of_bare_name_none(path) ==
    LET q == TrimSep(path)
    IN  IF q = <<>> \/ q = <<"/">> \/ LastSep(q) = 0 THEN None
        ELSE Some(TrimSep(SubSeq(q, 1, LastSep(q))))

\* None for the empty path and for a path that ends in the root; otherwise
\* the path without its last component (the empty path for a bare name).
parent(path) ==
    LET q == TrimSep(path)
    IN  IF q = <<>> \/ q = <<"/">> THEN None
        ELSE Some(TrimSep(SubSeq(q, 1, LastSep(q))))

(***************************************************************************)
(* Maps                                                                    *)
(***************************************************************************)
EmptyMap == <<>>

\* insert, were the value of an existing key kept (entry().or_insert()).
insert_keep_first(m, k, v) ==
    [x \in (DOMAIN m) \cup {k} |-> IF x \in DOMAIN m THEN m[x] ELSE v]

\* BTreeMap::insert: the value of an existing key is replaced.
insert(m, k, v) == [x \in (DOMAIN m) \cup {k} |-> IF x = k THEN v ELSE m[x]]

\* dir_map.entry(k).or_default().push(e)
entry_push(m, k, e) ==
    IF k \in DOMAIN m THEN [m EXCEPT ![k] = Append(@, e)] ELSE insert(m, k, <<e>>)

MinKey(S) == CHOOSE k \in S : \A j \in S : j = k \/ StrLess(k, j)

\* Iteration order of a BTreeMap<String, _>: ascending keys.
RECURSIVE SortedKeys(_)
SortedKeys(S) ==
    IF S = {} THEN <<>> ELSE <<MinKey(S)>> \o SortedKeys(S \ {MinKey(S)})

\* Every order in which a HashMap with key set S may be iterated.
Orders(S) ==
    {o \in [1..Cardinality(S) -> S] : \A i, j \in 1..Cardinality(S) : i # j => o[i] # o[j]}

(***************************************************************************)
(* organize_by_dir                                                         *)
(***************************************************************************)
RECURSIVE organize_loop(_, _, _)
organize_loop(rows, i, dir_map) ==
    IF i > Len(rows) THEN dir_map
    ELSE LET entry == rows[i]
         IN  IF entry.cols # None /\ entry.cols[1] # <<>>
                /\ parent(entry.cols[1][1]) # None
             THEN organize_loop(rows, i + 1,
                                entry_push(dir_map, parent(entry.cols[1][1])[1], entry))
             ELSE organize_loop(rows, i + 1, dir_map)

organize_by_dir(rows) == organize_loop(rows, 1, EmptyMap)

(***************************************************************************)
(* print_status: the remote-name merge                                     *)
(***************************************************************************)
new_key(key, name) == key \o <<" ", ">", " ">> \o name

RECURSIVE merge_loop(_, _, _, _)
merge_loop(organized_rows, keys, remote_map, new_map) ==
    IF keys = <<>> THEN new_map
    ELSE LET key == keys[1]
             value == organized_rows[key]
         IN  IF key \in DOMAIN remote_map
             THEN merge_loop(organized_rows, Tail(keys), remote_map,
                             insert(new_map, new_key(key, remote_map[key]), value))
             ELSE merge_loop(organized_rows, Tail(keys), remote_map,
                             insert(new_map, key, value))

\* rows_by_dir_of, were the renamed groups added to the map of the
\* organized rows instead of to a new map.
rows_by_dir_onto_organized(organized_rows, remote) ==
    IF remote # None
    THEN merge_loop(organized_rows, SortedKeys(DOMAIN organized_rows), remote[1],
                    organized_rows)
    ELSE organized_rows

rows_by_dir_of(organized_rows, remote) ==
    IF remote # None
    THEN merge_loop(organized_rows, SortedKeys(DOMAIN organized_rows), remote[1], EmptyMap)
    ELSE organized_rows

(***************************************************************************)
(* The table printers                                                      *)
(***************************************************************************)
\* Option::unwrap_or
unwrap_or(opt, default) == IF opt = None THEN default ELSE opt[1]

\* rows.values().flat_map(|v| v.iter()), the groups visited in the order keys
RECURSIVE flat_values(_, _)
flat_values(rows, keys) ==
    IF keys = <<>> THEN <<>> ELSE rows[keys[1]] \o flat_values(rows, Tail(keys))

\* max_cols, were the column count taken from the first row that has cols.
RECURSIVE max_cols_of_first(_)
max_cols_of_first(entries) ==
    IF entries = <<>> THEN 0
    ELSE IF entries[1].cols = None THEN max_cols_of_first(Tail(entries))
    ELSE Len(entries[1].cols[1])

\* filter_map(cols.len()).max().unwrap_or(0)
RECURSIVE max_cols(_)
max_cols(entries) ==
    IF entries = <<>> THEN 0
    ELSE IF entries[1].cols = None THEN max_cols(Tail(entries))
    ELSE Max2(Len(entries[1].cols[1]), max_cols(Tail(entries)))

\* A Vec under indexing: panicked records an index out of bounds, after
\* which nothing more is done.
Vec(v) == [panicked |-> FALSE, v |-> v]
Panic(v) == [panicked |-> TRUE, v |-> v]

\* for (i, col) in cols.iter().enumerate() { max_lengths[i] = ...max(col.width()) }
RECURSIVE cols_widths(_, _, _)
cols_widths(cols, i, ml) ==
    IF ml.panicked \/ i > Len(cols) THEN ml
    ELSE IF i > Len(ml.v) THEN Panic(ml.v)
    ELSE cols_widths(cols, i + 1, Vec([ml.v EXCEPT ![i] = Max2(@, width(cols[i]))]))

RECURSIVE rows_widths(_, _)
rows_widths(entries, ml) ==
    IF ml.panicked \/ entries = <<>> THEN ml
    ELSE rows_widths(Tail(entries),
                     IF entries[1].cols # None
                     THEN cols_widths(entries[1].cols[1], 1, ml) ELSE ml)

compute_max_lengths(entries) ==
    rows_widths(entries, Vec([i \in 1..max_cols(entries) |-> 0]))

\* status_color, were the arm for (None, Current, None) written with a
\* wildcard remote status.
status_color_wide_arm(tracked, local_status, remote_status) ==
    IF tracked = Some(TRUE) /\ local_status = "Current" /\ remote_status = Some("Current") THEN "green"
    ELSE IF tracked = Some(TRUE) /\ local_status = "Current" /\ remote_status = None THEN "green"
    ELSE IF tracked = Some(FALSE) /\ local_status = "Current" /\ remote_status = Some("Current") THEN "cyan"
    ELSE IF tracked = Some(FALSE) /\ local_status = "Current" /\ remote_status = None THEN "yellow"
    ELSE IF tracked = Some(FALSE) /\ local_status = "Current" /\ remote_status = Some("NotExists") THEN "yellow"
    ELSE IF tracked = None /\ local_status = "Current" THEN "green"
    ELSE IF tracked = Some(TRUE) /\ local_status = "Modified" THEN "red"
    ELSE IF tracked = Some(FALSE) /\ local_status = "Modified" THEN "red"
    ELSE IF tracked = Some(TRUE) /\ local_status = "Current" /\ remote_status = Some("NotExists") THEN "yellow"
    ELSE IF tracked = Some(TRUE) /\ local_status = "Current" /\ remote_status = Some("MD5Mismatch") THEN "yellow"
    ELSE IF tracked = Some(FALSE) /\ local_status = "Current" THEN "green"
    ELSE "cyan"

\* The match on (tracked, local_status, remote_status); the first arm that
\* matches decides.
status_color(tracked, local_status, remote_status) ==
    IF tracked = Some(TRUE) /\ local_status = "Current" /\ remote_status = Some("Current") THEN "green"
    ELSE IF tracked = Some(TRUE) /\ local_status = "Current" /\ remote_status = None THEN "green"
    ELSE IF tracked = Some(FALSE) /\ local_status = "Current" /\ remote_status = Some("Current") THEN "cyan"
    ELSE IF tracked = Some(FALSE) /\ local_status = "Current" /\ remote_status = None THEN "yellow"
    ELSE IF tracked = Some(FALSE) /\ local_status = "Current" /\ remote_status = Some("NotExists") THEN "yellow"
    ELSE IF tracked = None /\ local_status = "Current" /\ remote_status = None THEN "green"
    ELSE IF tracked = Some(TRUE) /\ local_status = "Modified" THEN "red"
    ELSE IF tracked = Some(FALSE) /\ local_status = "Modified" THEN "red"
    ELSE IF tracked = Some(TRUE) /\ local_status = "Current" /\ remote_status = Some("NotExists") THEN "yellow"
    ELSE IF tracked = Some(TRUE) /\ local_status = "Current" /\ remote_status = Some("MD5Mismatch") THEN "yellow"
    ELSE IF tracked = Some(FALSE) /\ local_status = "Current" THEN "green"
    ELSE "cyan"

\* One cell: padded to max_lengths[i]; the status printer puts one space
\* before the first cell.
fixed_col(styled, i, col, w) ==
    IF styled THEN (IF i = 1 THEN <<" ">> ELSE <<>>) \o format_width(col, w)
    ELSE format_width(col, w)

RECURSIVE fixed_row_loop(_, _, _, _, _)
fixed_row_loop(styled, cols, i, max_lengths, fixed_row) ==
    IF fixed_row.panicked \/ i > Len(cols) THEN fixed_row
    ELSE IF i > Len(max_lengths) THEN Panic(fixed_row.v)
    ELSE fixed_row_loop(styled, cols, i + 1, max_lengths,
                        Vec(Append(fixed_row.v, fixed_col(styled, i, cols[i], max_lengths[i]))))

\* The line printed for one row: println!("{}{}", " ".repeat(indent), status_line)
row_line(styled, row, fixed_row, nspaces, indent) ==
    [kind   |-> "row",
     indent |-> indent,
     text   |-> join(fixed_row, repeat(nspaces)),
     color  |-> IF styled
                THEN status_color(row.tracked, row.local_status, row.remote_status)
                ELSE "plain",
     cells  |-> fixed_row,
     row    |-> row]

header_line(key, color) == [kind |-> "header", text |-> key, bold |-> color]
blank_line == [kind |-> "blank"]

\* for row in value { ... println!(...) }
RECURSIVE value_loop(_, _, _, _, _, _)
value_loop(styled, value, max_lengths, nspaces, indent, out) ==
    IF out.panicked \/ value = <<>> THEN out
    ELSE LET row == value[1]
             fixed_row == IF row.cols # None
                          THEN fixed_row_loop(styled, row.cols[1], 1, max_lengths, Vec(<<>>))
                          ELSE Vec(<<>>)
         IN  IF fixed_row.panicked THEN Panic(out.v)
             ELSE value_loop(styled, Tail(value), max_lengths, nspaces, indent,
                             Vec(Append(out.v, row_line(styled, row, fixed_row.v, nspaces, indent))))

\* for (key, value) in &rows { println!("[{}]", pretty_key); ...; println!(); }
RECURSIVE groups_loop(_, _, _, _, _, _, _, _)
groups_loop(styled, rows, keys, max_lengths, nspaces, indent, color, out) ==
    IF out.panicked \/ keys = <<>> THEN out
    ELSE LET body == value_loop(styled, rows[keys[1]], max_lengths, nspaces, indent,
                                Vec(Append(out.v, header_line(keys[1], color))))
         IN  groups_loop(styled, rows, Tail(keys), max_lengths, nspaces, indent, color,
                         IF body.panicked THEN body ELSE Vec(Append(body.v, blank_line)))

\* The body shared by the two printers; order is the order in which the map
\* hands out its groups.
print_table(styled, rows, order, nspaces, indent, color) ==
    LET ml == compute_max_lengths(flat_values(rows, order))
        out == IF ml.panicked THEN Panic(<<>>)
               ELSE groups_loop(styled, rows, order, ml.v,
                                unwrap_or(nspaces, 6), unwrap_or(indent, 0), color, Vec(<<>>))
    IN  [max_lengths |-> ml.v, panicked |-> out.panicked, printed |-> out.v]

\* rows is a BTreeMap: iterated in ascending key order.
print_fixed_width_status(rows, nspaces, indent, color) ==
    print_table(TRUE, rows, SortedKeys(DOMAIN rows), nspaces, indent, color)

\* rows is a HashMap: iterated in the order the hasher gives, here order.
print_fixed_width(rows, order, nspaces, indent, color) ==
    print_table(FALSE, rows, order, nspaces, indent, color)

(***************************************************************************)
(* compute_md5                                                             *)
(***************************************************************************)
BUFFER_SIZE == 1024

\* Context::consume(&buffer[..bytes_read]): the accumulator is the list of
\* the chunks fed to it, each the range <<first, last>> of file offsets
\* (1-based) the chunk was read from.
consume(md5, pos, bytes_read) == Append(md5, <<pos + 1, pos + bytes_read>>)

\* The byte string a chunk list spells: consecutive chunks that continue
\* each other are one run of the file.
RECURSIVE data_of(_)
data_of(md5) ==
    IF Len(md5) <= 1 THEN md5
    ELSE LET rest == data_of(Tail(md5))
         IN  IF md5[1][2] + 1 = rest[1][1]
             THEN <<(<<md5[1][1], rest[1][2]>>)>> \o Tail(rest)
             ELSE <<md5[1]>> \o rest

\* format!("{:x}", md5.compute()): the digest, one value per byte string.
compute(md5) == [md5_hex_of |-> data_of(md5)]

Ok(v) == [tag |-> "Ok", value |-> v]
Err == [tag |-> "Err", value |-> None]
NoResult == [tag |-> "none", value |-> None]

VARIABLES
    \* compute_md5
    file,           \* the file at file_path: how File::open ends, and its length
    md5_pc,         \* "idle", "loop" (inside the read loop), "done"
    pos,            \* offset of the open file
    md5,            \* the Context
    reads,          \* sizes returned by the successful non-empty reads
    result,         \* what compute_md5 returned
    \* print_status, print_fixed_width_status, print_fixed_width
    call,           \* the function that was called, "none" before
    rows,           \* print_status: its rows argument
    remote,         \* print_status: its remote argument
    organized_rows, \* print_status: organize_by_dir(rows)
    rows_by_dir,    \* the map handed to the printer
    args,           \* the printer's nspaces, indent, color
    iter_order,     \* the order in which the map handed out its keys
    max_lengths,    \* the width table
    printed,        \* the lines written to stdout
    panicked        \* an index was out of bounds

md5_vars == <<file, md5_pc, pos, md5, reads, result>>
status_vars == <<call, rows, remote, organized_rows, rows_by_dir, args, iter_order,
                 max_lengths, printed, panicked>>
vars == <<file, md5_pc, pos, md5, reads, result,
          call, rows, remote, organized_rows, rows_by_dir, args, iter_order,
          max_lengths, printed, panicked>>

\* Bounds of the fingerprint model.
MaxChunks == 2
MaxReads == 5

OpenResults == {"Ok", "NotFound", "PermissionDenied"}
FileLens ==
    {0, 1} \cup {k * BUFFER_SIZE + d : k \in 1..MaxChunks, d \in {-1, 0, 1}}
Files == [open : OpenResults, len : FileLens]

\* A read may return fewer bytes than the buffer holds.
ReadSizes(remaining) ==
    {n \in {1, Min2(BUFFER_SIZE, remaining) - 1, Min2(BUFFER_SIZE, remaining)} : n >= 1}

Md5Idle ==
    /\ file = [open |-> "NotFound", len |-> 0]
    /\ md5_pc = "idle"
    /\ pos = 0
    /\ md5 = <<>>
    /\ reads = <<>>
    /\ result = NoResult

\* File::open(file_path): Err(_) => return Ok(None)
Open(f) ==
    /\ md5_pc = "idle"
    /\ file' = f
    /\ IF f.open = "Ok"
       THEN /\ md5_pc' = "loop"
            /\ result' = result
       ELSE /\ md5_pc' = "done"
            /\ result' = Ok(None)
    /\ pos' = 0
    /\ md5' = <<>>
    /\ reads' = <<>>
    /\ UNCHANGED status_vars

\* file.read(&mut buffer) gives Ok(bytes_read), bytes_read > 0
ReadChunk(bytes_read) ==
    /\ md5_pc = "loop"
    /\ Len(reads) < MaxReads
    /\ pos < file.len
    /\ bytes_read \in ReadSizes(file.len - pos)
    /\ md5' = consume(md5, pos, bytes_read)
    /\ pos' = pos + bytes_read
    /\ reads' = Append(reads, bytes_read)
    /\ UNCHANGED <<file, md5_pc, result>>
    /\ UNCHANGED status_vars

\* file.read(&mut buffer) gives Ok(0): break, then Ok(Some(format!(...)))
ReadEof ==
    /\ md5_pc = "loop"
    /\ pos = file.len
    /\ md5_pc' = "done"
    /\ result' = Ok(Some(compute(md5)))
    /\ UNCHANGED <<file, pos, md5, reads>>
    /\ UNCHANGED status_vars

\* ReadErr, were the loop left on a failed read as it is at EOF.
ReadErr_truncating ==
    /\ md5_pc = "loop"
    /\ md5_pc' = "done"
    /\ result' = Ok(Some(compute(md5)))
    /\ UNCHANGED <<file, pos, md5, reads>>
    /\ UNCHANGED status_vars

\* file.read(&mut buffer) gives Err(e): return Err(anyhow!(...))
ReadErr ==
    /\ md5_pc = "loop"
    /\ md5_pc' = "done"
    /\ result' = Err
    /\ UNCHANGED <<file, pos, md5, reads>>
    /\ UNCHANGED status_vars

(***************************************************************************)
(* The printers as operations                                              *)
(***************************************************************************)
StatusIdle ==
    /\ call = "none"
    /\ rows = <<>>
    /\ remote = None
    /\ organized_rows = EmptyMap
    /\ rows_by_dir = EmptyMap
    /\ args = [nspaces |-> None, indent |-> None, color |-> TRUE]
    /\ iter_order = <<>>
    /\ max_lengths = <<>>
    /\ printed = <<>>
    /\ panicked = FALSE

\* println!("{}", "Project data status:".bold());
\* println!("{} data file{} registered.\n", rows.len(), ...);
status_heading(r) ==
    <<[kind |-> "title"],
      [kind |-> "count", n |-> Len(r), plural |-> Len(r) > 1],
      blank_line>>

print_status(r, rem) ==
    /\ call = "none"
    /\ call' = "print_status"
    /\ rows' = r
    /\ remote' = rem
    /\ organized_rows' = organize_by_dir(r)
    /\ rows_by_dir' = rows_by_dir_of(organized_rows', rem)
    /\ args' = [nspaces |-> None, indent |-> None, color |-> TRUE]
    /\ iter_order' = SortedKeys(DOMAIN rows_by_dir')
    /\ \E t \in {print_fixed_width_status(rows_by_dir', None, None, TRUE)} :
           /\ max_lengths' = t.max_lengths
           /\ panicked' = t.panicked
           /\ printed' = status_heading(r) \o t.printed
    /\ UNCHANGED md5_vars

\* print_fixed_width_status called on a map of the caller's making
call_print_fixed_width_status(m, a) ==
    /\ call = "none"
    /\ call' = "print_fixed_width_status"
    /\ rows_by_dir' = m
    /\ args' = a
    /\ iter_order' = SortedKeys(DOMAIN m)
    /\ \E t \in {print_fixed_width_status(m, a.nspaces, a.indent, a.color)} :
           /\ max_lengths' = t.max_lengths
           /\ panicked' = t.panicked
           /\ printed' = t.printed
    /\ UNCHANGED <<rows, remote, organized_rows>>
    /\ UNCHANGED md5_vars

\* print_fixed_width called on a HashMap that iterates in the order o
call_print_fixed_width(m, o, a) ==
    /\ call = "none"
    /\ o \in Orders(DOMAIN m)
    /\ call' = "print_fixed_width"
    /\ rows_by_dir' = m
    /\ args' = a
    /\ iter_order' = o
    /\ \E t \in {print_fixed_width(m, o, a.nspaces, a.indent, a.color)} :
           /\ max_lengths' = t.max_lengths
           /\ panicked' = t.panicked
           /\ printed' = t.printed
    /\ UNCHANGED <<rows, remote, organized_rows>>
    /\ UNCHANGED md5_vars

(***************************************************************************)
(* Inputs                                                                  *)
(***************************************************************************)
MaxEntries == 3
MaxColorEntries == 2

StatusEntry(cols, tracked, local_status, remote_status) ==
    [cols |-> cols, tracked |-> tracked,
     local_status |-> local_status, remote_status |-> remote_status]

LocalStatusCode == {"Current", "Modified"}
RemoteStatusCode == {"Current", "NotExists", "MD5Mismatch"}
Option(S) == {None} \cup {Some(x) : x \in S}

\* Entries with display columns of every shape the printers distinguish.
EntryPool ==
    { StatusEntry(Some(<< <<"a","/","f">>, <<"1","0">> >>), Some(TRUE), "Current", Some("Current")),
      StatusEntry(Some(<< <<"a","/","g">>, <<"e",COMBINING>> >>), Some(FALSE), "Modified", None),
      StatusEntry(Some(<< <<"b","/",WIDE>>, <<"c">>, <<"x">> >>), Some(TRUE), "Current", Some("MD5Mismatch")),
      StatusEntry(Some(<< <<"f">> >>), Some(FALSE), "Current", None),
      StatusEntry(Some(<< <<"a"," ",">"," ","s","/","f">> >>), Some(TRUE), "Modified", Some("NotExists")),
      StatusEntry(Some(<< <<"/">>, <<"x">> >>), Some(FALSE), "Current", Some("Current")),
      StatusEntry(Some(<< <<>>, <<"c">> >>), None, "Current", None),
      StatusEntry(Some(<<>>), Some(TRUE), "Current", None),
      StatusEntry(None, None, "Modified", Some("Current")) }

\* Entries with every (tracked, local_status, remote_status).
ColorPool ==
    { StatusEntry(Some(<< <<"a","/","f">> >>), t, l, r) :
        t \in Option(BOOLEAN), l \in LocalStatusCode, r \in Option(RemoteStatusCode) }

RowsOf(pool, n) == UNION {[1..k -> pool] : k \in 0..n}

\* Remote::name() of the remote of each directory
RemotePool ==
    { None,
      Some(EmptyMap),
      Some((<<"a">> :> <<"s">>)),
      Some((<<"a">> :> <<"s"," ",">"," ","r">>) @@ (<<"a"," ",">"," ","s">> :> <<"r">>)
           @@ (<<"b">> :> <<"t">>)) }

KeyPool == {<<"a">>, <<"b">>}

\* The map that holds r[i] under the key f[i].
RECURSIVE MapOf(_, _, _, _)
MapOf(r, f, i, m) ==
    IF i > Len(r) THEN m ELSE MapOf(r, f, i + 1, entry_push(m, f[i], r[i]))

MapsOf(pool, n, keys) ==
    {MapOf(r, f, 1, EmptyMap) : <<r, f>> \in
        UNION {[1..k -> pool] \X [1..k -> keys] : k \in 0..n}}

ArgsPool ==
    { [nspaces |-> None, indent |-> None, color |-> TRUE],
      [nspaces |-> Some(1), indent |-> Some(2), color |-> FALSE] }

(***************************************************************************)
(* Specifications                                                          *)
(***************************************************************************)
Init == Md5Idle /\ StatusIdle

NextMd5 ==
    \/ \E f \in Files : Open(f)
    \/ \E n \in 1..BUFFER_SIZE : ReadChunk(n)
    \/ ReadEof
    \/ ReadErr

SpecMd5 == Init /\ [][NextMd5]_vars

NextStatus ==
    \/ call = "none" /\ \E r \in RowsOf(EntryPool, MaxEntries), rem \in RemotePool :
          print_status(r, rem)
    \/ call = "none" /\ \E m \in MapsOf(EntryPool, MaxEntries, KeyPool), a \in ArgsPool :
          call_print_fixed_width_status(m, a)
    \/ call = "none" /\ \E m \in MapsOf(EntryPool, MaxEntries, KeyPool), a \in ArgsPool :
          \E o \in Orders(DOMAIN m) : call_print_fixed_width(m, o, a)

SpecStatus == Init /\ [][NextStatus]_vars

NextColor ==
    \/ call = "none" /\ \E r \in RowsOf(ColorPool, MaxColorEntries) : print_status(r, None)
    \/ call = "none" /\ \E m \in MapsOf(ColorPool, MaxColorEntries, {<<"a">>}), a \in ArgsPool :
          call_print_fixed_width_status(m, a)

SpecColor == Init /\ [][NextColor]_vars

Next == NextMd5 \/ NextStatus \/ NextColor
Spec == Init /\ [][Next]_vars

(***************************************************************************)
(* Properties of compute_md5 (SpecMd5)                                     *)
(***************************************************************************)
\* The digest of the whole content of a file of len bytes.
DigestOfFile(len) == [md5_hex_of |-> IF len = 0 THEN <<>> ELSE <<(<<1, len>>)>>]

RECURSIVE SumSeq(_)
SumSeq(q) == IF q = <<>> THEN 0 ELSE q[1] + SumSeq(Tail(q))

\* C3: compute_md5 on an existing, readable file with empty content returns
\* Ok(None); it returns Some(digest) only for files with at least one byte.
C3_EmptyFileIsNone ==
    /\ (md5_pc = "done" /\ file.open = "Ok" /\ file.len = 0 /\ result.tag = "Ok")
          => result = Ok(None)
    /\ (result.tag = "Ok" /\ result.value # None) => file.len >= 1

\* C4: a file that does not exist gives Ok(None) without any read; a return
\* before EOF (a failed read) gives Err and never a digest; Ok(Some(digest))
\* is returned only at EOF, every chunk of at most BUFFER_SIZE bytes having
\* been fed in file order, and the digest is the digest of the whole content.
C4_Md5Outcomes ==
    /\ (md5_pc = "done" /\ file.open = "NotFound")
          => (result = Ok(None) /\ reads = <<>> /\ md5 = <<>>)
    /\ (md5_pc = "done" /\ file.open = "Ok" /\ pos < file.len) => result = Err
    /\ result.tag = "Err" => result.value = None
    /\ (result.tag = "Ok" /\ result.value # None)
          => /\ md5_pc = "done" /\ file.open = "Ok" /\ pos = file.len
             /\ Len(md5) = Len(reads)
             /\ \A i \in 1..Len(reads) :
                   /\ reads[i] >= 1 /\ reads[i] <= BUFFER_SIZE
                   /\ md5[i] = <<SumSeq(SubSeq(reads, 1, i - 1)) + 1,
                                 SumSeq(SubSeq(reads, 1, i))>>
             /\ SumSeq(reads) = file.len
             /\ result.value = Some(DigestOfFile(file.len))

\* A file longer than the buffer was digested in three or more chunks, one
\* of them short.
C4_Witness ==
    /\ md5_pc = "done" /\ result.tag = "Ok" /\ result.value # None
    /\ file.len > BUFFER_SIZE
    /\ Len(reads) >= 3
    /\ \E i \in 1..Len(reads) : reads[i] < BUFFER_SIZE

(***************************************************************************)
(* What was printed                                                        *)
(***************************************************************************)
Range(q) == {q[i] : i \in DOMAIN q}
SetMax(S) == CHOOSE x \in S : \A y \in S : y <= x

Styled == call \in {"print_status", "print_fixed_width_status"}

RowLines == SelectSeq(printed, LAMBDA l : l.kind = "row")
HeaderLines == SelectSeq(printed, LAMBDA l : l.kind = "header")

\* The entries of the rows that follow line p up to the next other line.
RECURSIVE RowsAfter(_)
RowsAfter(p) ==
    IF p + 1 > Len(printed) \/ printed[p + 1].kind # "row" THEN <<>>
    ELSE <<printed[p + 1].row>> \o RowsAfter(p + 1)

\* The entries handed to the printer, and the cells they have in column i.
PrintedEntries == UNION {Range(rows_by_dir[k]) : k \in DOMAIN rows_by_dir}
HasColumn(e, i) == e.cols # None /\ Len(e.cols[1]) >= i
ColumnWidths(i) == {width(e.cols[1][i]) : e \in {x \in PrintedEntries : HasColumn(x, i)}}
ColumnCounts == {Len(e.cols[1]) : e \in {x \in PrintedEntries : x.cols # None}}

RECURSIVE SumLens(_, _)
SumLens(m, K) ==
    IF K = {} THEN 0
    ELSE LET k == CHOOSE x \in K : TRUE IN Len(m[k]) + SumLens(m, K \ {k})

(***************************************************************************)
(* Properties of the row colours (SpecColor)                               *)
(***************************************************************************)
\* The decision table of the design, first matching row first.
TableSeverity(tracked, local, rem) ==
    IF tracked = Some(TRUE) /\ local = "Current" /\ rem \in {Some("Current"), None} THEN "Ok"
    ELSE IF tracked = Some(FALSE) /\ local = "Current" /\ rem = Some("Current") THEN "LocalOnlySynced"
    ELSE IF tracked = Some(FALSE) /\ local = "Current" /\ rem \in {None, Some("NotExists")} THEN "Caution"
    ELSE IF tracked \in {Some(TRUE), Some(FALSE)} /\ local = "Modified" THEN "Drifted"
    ELSE IF tracked = Some(TRUE) /\ local = "Current" /\ rem \in {Some("NotExists"), Some("MD5Mismatch")} THEN "Caution"
    ELSE IF tracked = Some(FALSE) /\ local = "Current" THEN "Caution"
    ELSE IF tracked = None /\ local = "Current" /\ rem = None THEN "Ok"
    ELSE "Ambiguous"

SeverityColor(sev) ==
    CASE sev = "Ok" -> "green" [] sev = "Drifted" -> "red" [] sev = "Caution" -> "yellow"
      [] sev = "LocalOnlySynced" -> "cyan" [] sev = "Ambiguous" -> "cyan"

\* C1: every row printed by print_fixed_width_status has the colour of the
\* first matching row of the decision table; an untracked row with local
\* Current and remote MD5Mismatch is yellow.
C1_ColorFollowsTable ==
    Styled => \A i \in 1..Len(RowLines) :
        LET l == RowLines[i]
        IN  l.color = SeverityColor(TableSeverity(l.row.tracked, l.row.local_status,
                                                  l.row.remote_status))

\* The combinations no arm of the match names: tracked absent, other than
\* local Current with no remote status.
Unnamed(e) == e.tracked = None /\ ~(e.local_status = "Current" /\ e.remote_status = None)

\* C2: the listing never aborts, every row handed to
\* print_fixed_width_status is printed with exactly one of the four colours,
\* and a row whose combination no arm names is cyan.
C2_ClassifierTotal ==
    Styled =>
        /\ ~panicked
        /\ Len(RowLines) = SumLens(rows_by_dir, DOMAIN rows_by_dir)
        /\ \A i \in 1..Len(RowLines) :
              /\ RowLines[i].color \in {"green", "red", "yellow", "cyan"}
              /\ Unnamed(RowLines[i].row) => RowLines[i].color = "cyan"

\* Rows with tracked absent were printed: local Modified, and local Current
\* with a remote status.
C2_Witness ==
    /\ call = "print_fixed_width_status"
    /\ \E i \in 1..Len(RowLines) :
          /\ RowLines[i].row.tracked = None /\ RowLines[i].row.local_status = "Modified"
          /\ RowLines[i].color = "cyan"
    /\ \E i \in 1..Len(RowLines) :
          /\ RowLines[i].row.tracked = None /\ RowLines[i].row.local_status = "Current"
          /\ RowLines[i].row.remote_status = Some("NotExists")
          /\ RowLines[i].color = "cyan"

(***************************************************************************)
(* Properties of the grouping (SpecStatus)                                 *)
(***************************************************************************)
HasSep(str) == \E i \in 1..Len(str) : str[i] = "/"

\* str is "dir/file": exactly one separator, with a name on both sides.
TwoSegment(str) ==
    /\ Cardinality({i \in 1..Len(str) : str[i] = "/"}) = 1
    /\ str[1] # "/" /\ str[Len(str)] # "/"

DirOf(str) == SubSeq(str, 1, (CHOOSE i \in 1..Len(str) : str[i] = "/") - 1)

InGroup(e, k) == k \in DOMAIN organized_rows /\ e \in Range(organized_rows[k])
InNoGroup(e) == \A k \in DOMAIN organized_rows : e \notin Range(organized_rows[k])

FirstCol(e) == e.cols[1][1]
NoFirstCol(e) == e.cols = None \/ e.cols = Some(<<>>)

\* C5 as stated: an entry "dir/file" is in the group "dir"; an entry whose
\* cols is absent or empty, or whose first column has no separator, is in no
\* group at all.
C5_BareNameDropped ==
    call = "print_status" => \A i \in 1..Len(rows) :
        LET e == rows[i]
        IN  /\ (~NoFirstCol(e) /\ TwoSegment(FirstCol(e))) => InGroup(e, DirOf(FirstCol(e)))
            /\ (NoFirstCol(e) \/ ~HasSep(FirstCol(e))) => InNoGroup(e)

\* C5 as amended: an entry "dir/file" is in the group "dir"; an entry whose
\* first column is a bare file name is in the group of the empty key; an
\* entry whose cols is absent or empty, or whose first column is the empty
\* string or the root "/", is in no group at all.
C5_BareNameUnderEmptyKey ==
    call = "print_status" => \A i \in 1..Len(rows) :
        LET e == rows[i]
        IN  /\ (~NoFirstCol(e) /\ TwoSegment(FirstCol(e)))
                  => (InGroup(e, DirOf(FirstCol(e)))
                      /\ \A k \in DOMAIN organized_rows :
                            InGroup(e, k) => k = DirOf(FirstCol(e)))
            /\ (~NoFirstCol(e) /\ FirstCol(e) # <<>> /\ ~HasSep(FirstCol(e)))
                  => (InGroup(e, <<>>)
                      /\ \A k \in DOMAIN organized_rows : InGroup(e, k) => k = <<>>)
            /\ (NoFirstCol(e) \/ FirstCol(e) = <<>> \/ FirstCol(e) = <<"/">>)
                  => InNoGroup(e)

\* A bare file name, a "dir/file" and an entry without cols were grouped.
C5_Witness ==
    /\ call = "print_status"
    /\ \E i \in 1..Len(rows) :
          ~NoFirstCol(rows[i]) /\ FirstCol(rows[i]) = <<"f">> /\ InGroup(rows[i], <<>>)
    /\ \E i \in 1..Len(rows) :
          ~NoFirstCol(rows[i]) /\ TwoSegment(FirstCol(rows[i])) /\ InGroup(rows[i], <<"a">>)
    /\ \E i \in 1..Len(rows) : NoFirstCol(rows[i]) /\ InNoGroup(rows[i])

(***************************************************************************)
(* Properties of the printed table (SpecStatus)                            *)
(***************************************************************************)
\* C6: in both printers the group headers come in ascending order of their
\* keys and the rows under a header are the group's entries in their order;
\* through print_status that is their relative order in the input.
C6_SortedDeterministicOrder ==
    (call # "none" /\ ~panicked) =>
        /\ \A i, j \in 1..Len(HeaderLines) :
              i < j => StrLess(HeaderLines[i].text, HeaderLines[j].text)
        /\ \A p \in 1..Len(printed) :
              printed[p].kind = "header" => RowsAfter(p) = rows_by_dir[printed[p].text]
        /\ call = "print_status" =>
              \A k \in DOMAIN organized_rows :
                 organized_rows[k] =
                    SelectSeq(rows, LAMBDA e : e \in Range(organized_rows[k]))

\* C7: the width of column i is the greatest display width of the cells of
\* column i, and every printed cell of column i has exactly that display
\* width (after the one leading space of the status printer's first cell).
C7_CellsHaveColumnWidth ==
    (call # "none" /\ ~panicked) =>
        /\ \A i \in 1..Len(max_lengths) : max_lengths[i] = SetMax(ColumnWidths(i))
        /\ \A r \in 1..Len(RowLines) : \A i \in 1..Len(RowLines[r].cells) :
              width(RowLines[r].cells[i])
                 = SetMax(ColumnWidths(i)) + (IF Styled /\ i = 1 THEN 1 ELSE 0)

\* C9: no index into the width table is out of bounds, the table has as
\* many slots as the longest cols, a row with k columns is printed with
\* exactly k cells, each its own column's text followed by padding, and
\* the widths are those of the rows that have cols.
C9_RenderNeverFails ==
    call # "none" =>
        /\ ~panicked
        /\ Len(max_lengths) = SetMax(ColumnCounts \cup {0})
        /\ \A i \in 1..Len(max_lengths) : max_lengths[i] = SetMax(ColumnWidths(i))
        /\ Len(RowLines) = SumLens(rows_by_dir, DOMAIN rows_by_dir)
        /\ \A r \in 1..Len(RowLines) :
              LET l == RowLines[r]
                  cols == IF l.row.cols = None THEN <<>> ELSE l.row.cols[1]
                  lead == IF Styled THEN 1 ELSE 0
              IN  /\ Len(l.cells) = Len(cols)
                  /\ \A i \in 1..Len(cols) :
                        /\ i <= Len(max_lengths)
                        /\ SubSeq(l.cells[i], 1 + (IF i = 1 THEN lead ELSE 0),
                                  Len(cols[i]) + (IF i = 1 THEN lead ELSE 0)) = cols[i]

\* Rows without cols, with one column and with three columns were printed
\* in one table.
C9_Witness ==
    /\ call = "print_fixed_width_status"
    /\ Len(max_lengths) = 3
    /\ \E r \in 1..Len(RowLines) : RowLines[r].row.cols = None /\ RowLines[r].cells = <<>>
    /\ \E r \in 1..Len(RowLines) : Len(RowLines[r].cells) = 1
    /\ \E r \in 1..Len(RowLines) : Len(RowLines[r].cells) = 3

(***************************************************************************)
(* Properties of the remote-name merge (SpecStatus)                        *)
(***************************************************************************)
HasRemote(k) == remote # None /\ k \in DOMAIN remote[1]

\* The key a group of directory k is written under.
FinalKey(k) == IF HasRemote(k) THEN k \o <<" ", ">", " ">> \o remote[1][k] ELSE k

HeaderKeys == {HeaderLines[i].text : i \in 1..Len(HeaderLines)}

\* Two groups are written under the same key.
Collision ==
    \E k1, k2 \in DOMAIN organized_rows : k1 # k2 /\ FinalKey(k1) = FinalKey(k2)

\* The group written last under the key of group k is group k itself.
Wins(k) ==
    \A k2 \in DOMAIN organized_rows : FinalKey(k2) = FinalKey(k) => (k2 = k \/ StrLess(k2, k))

\* C8 as stated: every group is printed under "K > name" when K has a
\* remote and under K otherwise, with its entry sequence unchanged.
C8_EveryGroupUnderItsKey ==
    call = "print_status" =>
        /\ \A k \in DOMAIN organized_rows :
              /\ FinalKey(k) \in DOMAIN rows_by_dir
              /\ rows_by_dir[FinalKey(k)] = organized_rows[k]
              /\ FinalKey(k) \in HeaderKeys
        /\ remote = None => rows_by_dir = organized_rows

\* C8 as amended: the keys printed are "K > name" for the groups with a
\* remote and K for the others; under each key the entry sequence of the
\* group written to it last (the one with the greatest directory key) is
\* printed unchanged, and an earlier group written to the same key is not
\* printed; without a mapping every key is unchanged.
C8_LastGroupUnderItsKey ==
    call = "print_status" =>
        /\ DOMAIN rows_by_dir = {FinalKey(k) : k \in DOMAIN organized_rows}
        /\ HeaderKeys = DOMAIN rows_by_dir
        /\ \A k \in DOMAIN organized_rows :
              Wins(k) => rows_by_dir[FinalKey(k)] = organized_rows[k]
        /\ \A p \in 1..Len(printed) :
              printed[p].kind = "header" => RowsAfter(p) = rows_by_dir[printed[p].text]
        /\ remote = None => rows_by_dir = organized_rows

\* A group with a remote was printed under "a > s", and a second group
\* written to the same key replaced an earlier one.
C8_Witness ==
    /\ call = "print_status"
    /\ \E k \in DOMAIN organized_rows : HasRemote(k) /\ Wins(k) /\ FinalKey(k) \in HeaderKeys
    /\ \E k \in DOMAIN organized_rows : ~HasRemote(k) /\ k \in HeaderKeys
    /\ Collision

\* C10 as stated: every entry retained by organize_by_dir is printed as
\* exactly one row, also when rewritten keys coincide.
C10_EveryRetainedEntryPrinted ==
    call = "print_status" =>
        /\ Len(RowLines) = SumLens(organized_rows, DOMAIN organized_rows)
        /\ \A k \in DOMAIN organized_rows : \A e \in Range(organized_rows[k]) :
              \E r \in 1..Len(RowLines) : RowLines[r].row = e

\* C10 as amended: the rows printed are, once each, the entries of the
\* groups that were written last under their key; their number is the
\* number of retained entries when no two groups are written under the same
\* key, and smaller when two are, the entries of the earlier group being
\* lost.
C10_WinningEntriesPrinted ==
    call = "print_status" =>
        /\ Len(RowLines) = SumLens(organized_rows, {k \in DOMAIN organized_rows : Wins(k)})
        /\ \A k \in DOMAIN organized_rows :
              Wins(k) => \E p \in 1..Len(printed) :
                            /\ printed[p].kind = "header"
                            /\ printed[p].text = FinalKey(k)
                            /\ RowsAfter(p) = organized_rows[k]
        /\ ~Collision => Len(RowLines) = SumLens(organized_rows, DOMAIN organized_rows)
        /\ Collision => Len(RowLines) < SumLens(organized_rows, DOMAIN organized_rows)

\* Two groups were written under one key and fewer rows than retained
\* entries were printed.
C10_Witness ==
    /\ call = "print_status"
    /\ remote # None
    /\ Collision
    /\ Len(RowLines) >= 1
    /\ Len(RowLines) < SumLens(organized_rows, DOMAIN organized_rows)
====
